---- MODULE Spec2Model ----
(***************************************************************************)
(* Model of pkg/operator/encryption/encryptionconfig/config.go:            *)
(* FromEncryptionState / stateToProviders (state -> wire configuration)    *)
(* and ToEncryptionState (wire configuration -> state).                    *)
(*                                                                         *)
(* Strings that are compared or parsed (resource identifiers) are          *)
(* sequences of one-character strings.  A key name is represented by the   *)
(* key id it carries (0 is the empty name); a pointer is a sequence of     *)
(* length 0 (nil) or 1.                                                    *)
(***************************************************************************)
EXTENDS Integers, Sequences, FiniteSets, TLC

VARIABLES
    pc,               \* "state": a key state is given; "config": a wire configuration is given;
                      \* "done": ToEncryptionState returned; "panic": FromEncryptionState aborted
    encryptionState,  \* map[schema.GroupResource]state.GroupResourceState
    encryptionConfig, \* *apiserverconfigv1.EncryptionConfiguration
    keySecrets,       \* []*corev1.Secret
    out,              \* first result of ToEncryptionState
    backedKeys        \* second result of ToEncryptionState

vars == <<pc, encryptionState, encryptionConfig, keySecrets, out, backedKeys>>

----------------------------------------------------------------------------
(* Bounds *)

MaxKeyID == 2       \* key ids 1..MaxKeyID
MaxReadKeys == 2    \* longest ReadKeys of an encoded state
MaxResources == 2   \* most entries of an encoded resource map
MaxProviders == 3   \* longest provider list of a decoded resource entry
MaxEntries == 2     \* most resource entries of a decoded configuration
MaxSecrets == 1     \* most key secrets given to the decoder

----------------------------------------------------------------------------
(* Key-state data model (package state) *)

AESCBC == "aescbc"
SecretBox == "secretbox"
Identity == "identity"
InvalidMode == "bogus"

emptyStaticIdentityKey == "AAAAAAAAAAAAAAAAAAAAAA=="

ZeroKey == [Name |-> 0, Secret |-> ""]
ZeroKeyState == [Key |-> ZeroKey, Mode |-> "", Backed |-> FALSE]
ZeroGroupResourceState == [WriteKey |-> ZeroKeyState, ReadKeys |-> <<>>]

HasWriteKey(grs) == grs.WriteKey # ZeroKeyState

EqualKeyAndEqualID(s1, s2) ==
    /\ s1.Key.Name = s2.Key.Name
    /\ s1.Key.Secret = s2.Key.Secret

RECURSIVE InsertRecentFirst(_, _)
InsertRecentFirst(ks, sorted) ==
    IF sorted = <<>> THEN <<ks>>
    ELSE IF ks.Key.Name > Head(sorted).Key.Name THEN <<ks>> \o sorted
    ELSE <<Head(sorted)>> \o InsertRecentFirst(ks, Tail(sorted))

RECURSIVE SortRecentFirst(_)
SortRecentFirst(unsorted) ==
    IF unsorted = <<>> THEN <<>>
    ELSE InsertRecentFirst(unsorted[Len(unsorted)],
                           SortRecentFirst(SubSeq(unsorted, 1, Len(unsorted) - 1)))

\* secrets.ToKeyState: a record that fails to parse gives an error
ToKeyState(s) == [ks |-> s.ks, err |-> ~s.valid]

----------------------------------------------------------------------------
(* Resource identifiers (schema.GroupResource) *)

CharCode == [c \in {".", "a", "b"} |-> CASE c = "." -> 46 [] c = "a" -> 97 [] c = "b" -> 98]

RECURSIVE StringLess(_, _)
StringLess(s, t) ==
    IF t = <<>> THEN FALSE
    ELSE IF s = <<>> THEN TRUE
    ELSE IF CharCode[Head(s)] # CharCode[Head(t)] THEN CharCode[Head(s)] < CharCode[Head(t)]
    ELSE StringLess(Tail(s), Tail(t))

\* gr.String()
GroupResourceString(gr) ==
    IF Len(gr.Group) = 0 THEN gr.Resource ELSE gr.Resource \o <<".">> \o gr.Group

\* index of the first "." of s from position i on, 0 when there is none
RECURSIVE IndexOfDot(_, _)
IndexOfDot(s, i) ==
    IF i > Len(s) THEN 0
    ELSE IF s[i] = "." THEN i
    ELSE IndexOfDot(s, i + 1)

\* schema.ParseGroupResource
ParseGroupResource(s) ==
    LET i == IndexOfDot(s, 1) IN
    IF i > 0 THEN [Group |-> SubSeq(s, i + 1, Len(s)), Resource |-> SubSeq(s, 1, i - 1)]
    ELSE [Group |-> <<>>, Resource |-> s]

----------------------------------------------------------------------------
(* Wire providers (apiserverconfigv1.ProviderConfiguration) *)

NoProvider == [AESCBC |-> <<>>, Secretbox |-> <<>>, AESGCM |-> <<>>, Identity |-> FALSE]
AESCBCProvider(keys) == [NoProvider EXCEPT !.AESCBC = <<[Keys |-> keys]>>]
SecretboxProvider(keys) == [NoProvider EXCEPT !.Secretbox = <<[Keys |-> keys]>>]
AESGCMProvider(keys) == [NoProvider EXCEPT !.AESGCM = <<[Keys |-> keys]>>]
IdentityProvider == [NoProvider EXCEPT !.Identity = TRUE]

----------------------------------------------------------------------------
(* stateToProviders *)

\* lines 138-150: the keys to translate, write key first
RECURSIVE removeFirstEqual(_, _, _)
removeFirstEqual(allKeys, i, writeKey) ==
    IF i > Len(allKeys) THEN allKeys
    ELSE IF EqualKeyAndEqualID(allKeys[i], writeKey)
         THEN SubSeq(allKeys, 1, i - 1) \o SubSeq(allKeys, i + 1, Len(allKeys))
         ELSE removeFirstEqual(allKeys, i + 1, writeKey)

allKeysOf(desired) ==
    IF HasWriteKey(desired)
    THEN removeFirstEqual(<<desired.WriteKey>> \o desired.ReadKeys, 2, desired.WriteKey)
    ELSE desired.ReadKeys

\* lines 151-156: the providers before the loop
initialProviders(desired) ==
    IF HasWriteKey(desired) THEN <<>> ELSE <<IdentityProvider>>

\* line 179-183: the provider that carries the name of an identity key
identityNameProvider(key) == AESGCMProvider(<<key.Key>>)

\* lines 159-188: the loop over allKeys, from (1-based) position i on
RECURSIVE translateKeys(_, _, _, _)
translateKeys(allKeys, i, providers, aesgcmProviders) ==
    IF i > Len(allKeys)
    THEN [providers |-> providers, aesgcmProviders |-> aesgcmProviders]
    ELSE LET key == allKeys[i] IN
         CASE key.Mode = AESCBC ->
                translateKeys(allKeys, i + 1,
                              Append(providers, AESCBCProvider(<<key.Key>>)), aesgcmProviders)
           [] key.Mode = SecretBox ->
                translateKeys(allKeys, i + 1,
                              Append(providers, SecretboxProvider(<<key.Key>>)), aesgcmProviders)
           [] key.Mode = Identity ->
                translateKeys(allKeys, i + 1,
                              IF i = 1 THEN Append(providers, IdentityProvider) ELSE providers,
                              Append(aesgcmProviders, identityNameProvider(key)))
           [] OTHER ->
                translateKeys(allKeys, i + 1, providers, aesgcmProviders)

\* lines 137-201; panic: providers[0] of an empty list (line 191)
stateToProviders(desired) ==
    LET loop == translateKeys(allKeysOf(desired), 1, initialProviders(desired), <<>>) IN
    IF loop.providers = <<>>
    THEN [panic |-> TRUE, providers |-> <<>>]
    ELSE [panic |-> FALSE,
          providers |-> (IF ~loop.providers[1].Identity
                         THEN Append(loop.providers, IdentityProvider)
                         ELSE loop.providers) \o loop.aesgcmProviders]

----------------------------------------------------------------------------
(* FromEncryptionState *)

\* line 34 with the comparison turned round
resourceConfigGreater(a, b) == StringLess(b.Resources[1], a.Resources[1])

\* line 34: the order of sort.Slice
resourceConfigLess(a, b) == StringLess(a.Resources[1], b.Resources[1])

RECURSIVE insertResourceConfig(_, _)
insertResourceConfig(rc, sorted) ==
    IF sorted = <<>> THEN <<rc>>
    ELSE IF resourceConfigLess(rc, Head(sorted)) THEN <<rc>> \o sorted
    ELSE <<Head(sorted)>> \o insertResourceConfig(rc, Tail(sorted))

RECURSIVE sortResourceConfigs(_)
sortResourceConfigs(rcs) ==
    IF rcs = <<>> THEN <<>>
    ELSE insertResourceConfig(rcs[Len(rcs)], sortResourceConfigs(SubSeq(rcs, 1, Len(rcs) - 1)))

\* lines 25-30: the entries in the order the map is iterated
resourceConfigsOf(state, order) ==
    [n \in 1..Len(order) |->
        [Resources |-> <<GroupResourceString(order[n])>>,
         Providers |-> stateToProviders(state[order[n]]).providers]]

\* lines 22-38, for the iteration order `order`
FromEncryptionState(state, order) ==
    IF \E n \in 1..Len(order) : stateToProviders(state[order[n]]).panic
    THEN [panic |-> TRUE, config |-> <<>>]
    ELSE [panic |-> FALSE,
          config |-> <<[Resources |-> sortResourceConfigs(resourceConfigsOf(state, order))]>>]

----------------------------------------------------------------------------
(* ToEncryptionState *)

\* lines 52-62
RECURSIVE collectBackedKeys(_)
collectBackedKeys(secrets) ==
    IF secrets = <<>> THEN <<>>
    ELSE LET km == ToKeyState(Head(secrets)) IN
         IF km.err THEN collectBackedKeys(Tail(secrets))
         ELSE <<[km.ks EXCEPT !.Backed = TRUE]>> \o collectBackedKeys(Tail(secrets))

backedKeysOf(secrets) == SortRecentFirst(collectBackedKeys(secrets))

\* lines 81-107: the switch; skip is the `continue` of the identity case (placeholder)
\* and of the default case
providerToKeyState(provider) ==
    CASE provider.AESCBC # <<>> /\ Len(provider.AESCBC[1].Keys) = 1 ->
            [skip |-> FALSE, placeholder |-> FALSE, ks |-> [Key |-> provider.AESCBC[1].Keys[1], Mode |-> AESCBC, Backed |-> FALSE]]
      [] provider.Secretbox # <<>> /\ Len(provider.Secretbox[1].Keys) = 1 ->
            [skip |-> FALSE, placeholder |-> FALSE, ks |-> [Key |-> provider.Secretbox[1].Keys[1], Mode |-> SecretBox, Backed |-> FALSE]]
      [] provider.Identity ->
            [skip |-> TRUE, placeholder |-> TRUE, ks |-> ZeroKeyState]
      [] /\ provider.AESGCM # <<>>
         /\ Len(provider.AESGCM[1].Keys) = 1
         /\ provider.AESGCM[1].Keys[1].Secret = emptyStaticIdentityKey ->
            [skip |-> FALSE, placeholder |-> FALSE, ks |-> [Key |-> provider.AESGCM[1].Keys[1], Mode |-> Identity, Backed |-> FALSE]]
      [] OTHER ->
            [skip |-> TRUE, placeholder |-> FALSE, ks |-> ZeroKeyState]

\* lines 110-115
RECURSIVE enrich(_, _)
enrich(ks, backed) ==
    IF backed = <<>> THEN ks
    ELSE IF EqualKeyAndEqualID(ks, Head(backed)) THEN Head(backed)
    ELSE enrich(ks, Tail(backed))

\* line 117 without the identity case: only position 0 gives the write key
setsWriteKeyAtFirstOnly(i, ks, grState) == i = 1

\* line 117 without the HasWriteKey test: every identity key replaces the write key
setsWriteKeyAnyIdentity(i, ks, grState) == i = 1 \/ ks.Mode = Identity

\* line 117
setsWriteKey(i, ks, grState) == i = 1 \/ (ks.Mode = Identity /\ ~HasWriteKey(grState))

\* line 121 in an else branch: the write key is not stored as a read key
appendReadKeyUnlessWriteKey(grState, ks) ==
    IF grState.WriteKey = ks THEN grState ELSE [grState EXCEPT !.ReadKeys = Append(@, ks)]

\* line 121
appendReadKey(grState, ks) == [grState EXCEPT !.ReadKeys = Append(@, ks)]

\* lines 78-122: the loop over the providers, from (1-based) position i on
RECURSIVE decodeProviders(_, _, _, _)
decodeProviders(providers, i, backed, grState) ==
    IF i > Len(providers) THEN grState
    ELSE LET d == providerToKeyState(providers[i]) IN
         IF d.skip THEN decodeProviders(providers, i + 1, backed, grState)
         ELSE LET ks == enrich(d.ks, backed)
                  withWrite == IF setsWriteKey(i, ks, grState)
                               THEN [grState EXCEPT !.WriteKey = ks]
                               ELSE grState
              IN decodeProviders(providers, i + 1, backed, appendReadKey(withWrite, ks))

\* lines 76-125
resourceConfigToState(resourceConfig, backed) ==
    LET grState == decodeProviders(resourceConfig.Providers, 1, backed, ZeroGroupResourceState) IN
    [grState EXCEPT !.ReadKeys = SortRecentFirst(@)]

\* line 71 testing only for an empty list of resources
validResourceConfigAtLeastOne(resourceConfig) == Len(resourceConfig.Resources) >= 1

\* line 71
validResourceConfig(resourceConfig) == Len(resourceConfig.Resources) = 1

\* lines 69-128: the loop over the resource entries, from position n on
RECURSIVE decodeResources(_, _, _, _)
decodeResources(resourceConfigs, n, backed, result) ==
    IF n > Len(resourceConfigs) THEN result
    ELSE LET rc == resourceConfigs[n] IN
         IF ~validResourceConfig(rc) THEN decodeResources(resourceConfigs, n + 1, backed, result)
         ELSE LET gr == ParseGroupResource(rc.Resources[1])
                  grState == resourceConfigToState(rc, backed)
              IN decodeResources(resourceConfigs, n + 1, backed,
                    [x \in DOMAIN result \cup {gr} |-> IF x = gr THEN grState ELSE result[x]])

\* lines 51-131
ToEncryptionState(config, secrets) ==
    LET backed == backedKeysOf(secrets) IN
    IF config = <<>> THEN [out |-> <<>>, backedKeys |-> backed]
    ELSE [out |-> decodeResources(config[1].Resources, 1, backed, <<>>), backedKeys |-> backed]

----------------------------------------------------------------------------
(* Inputs *)

KeyIDs == 1..MaxKeyID
Secrets == {"c2VjcmV0", emptyStaticIdentityKey}
Keys == [Name : KeyIDs, Secret : Secrets]
Modes == {AESCBC, SecretBox, Identity, InvalidMode}
ValidModes == {AESCBC, SecretBox, Identity}

RECURSIVE SeqsUpTo(_, _)
SeqsUpTo(S, n) ==
    IF n = 0 THEN {<<>>}
    ELSE LET shorter == SeqsUpTo(S, n - 1) IN
         shorter \cup {Append(s, x) : s \in {t \in shorter : Len(t) = n - 1}, x \in S}

Perms(S) == {s \in SeqsUpTo(S, Cardinality(S)) : Len(s) = Cardinality(S) /\ \A x \in S : \E n \in 1..Len(s) : s[n] = x}

\* the resource of the single-resource specification
TheResource == [Group |-> <<"b">>, Resource |-> <<"a">>]

InputKeyStates == [Key : Keys, Mode : Modes, Backed : {FALSE}]
InputStates == [WriteKey : InputKeyStates \cup {ZeroKeyState},
                ReadKeys : SeqsUpTo(InputKeyStates, MaxReadKeys)]

----------------------------------------------------------------------------
(* Operations *)

Encode ==
    /\ pc = "state"
    /\ \E order \in Perms(DOMAIN encryptionState) :
         LET r == FromEncryptionState(encryptionState, order) IN
         /\ pc' = IF r.panic THEN "panic" ELSE "config"
         /\ encryptionConfig' = r.config
    /\ UNCHANGED <<encryptionState, keySecrets, out, backedKeys>>

Decode ==
    /\ pc = "config"
    /\ LET r == ToEncryptionState(encryptionConfig, keySecrets) IN
         /\ out' = r.out
         /\ backedKeys' = r.backedKeys
    /\ pc' = "done"
    /\ UNCHANGED <<encryptionState, encryptionConfig, keySecrets>>

\* one resource with any key state, encoded and then decoded with no key secrets
Init ==
    /\ pc = "state"
    /\ \E S \in InputStates : encryptionState = [gr \in {TheResource} |-> S]
    /\ encryptionConfig = <<>>
    /\ keySecrets = <<>>
    /\ out = <<>>
    /\ backedKeys = <<>>

Next == Encode \/ Decode

Spec == Init /\ [][Next]_vars

----------------------------------------------------------------------------
(* Resource maps of several resources (SpecMap) *)

GroupResources == [Group : {<<>>, <<"a">>, <<"b">>},
                   Resource : {<<"a">>, <<"b">>, <<"a", "b">>, <<"a", ".", "b">>}]

MapKeyState(id, mode) ==
    [Key |-> [Name |-> id, Secret |-> IF mode = Identity THEN emptyStaticIdentityKey ELSE "c2VjcmV0"],
     Mode |-> mode, Backed |-> FALSE]

MapStates ==
    { [WriteKey |-> ZeroKeyState, ReadKeys |-> <<MapKeyState(1, Identity)>>],
      [WriteKey |-> MapKeyState(2, AESCBC),
       ReadKeys |-> <<MapKeyState(2, AESCBC), MapKeyState(1, Identity)>>] }

InitMap ==
    /\ pc = "state"
    /\ \E grs \in SUBSET GroupResources :
         /\ Cardinality(grs) <= MaxResources
         /\ encryptionState \in [grs -> MapStates]
    /\ encryptionConfig = <<>>
    /\ keySecrets = <<>>
    /\ out = <<>>
    /\ backedKeys = <<>>

SpecMap == InitMap /\ [][Next]_vars

----------------------------------------------------------------------------
(* Wire configurations from outside (SpecDecode) *)

WireKey(id, secret) == [Name |-> id, Secret |-> secret]

WireProviders ==
    { AESCBCProvider(<<WireKey(1, "c2VjcmV0")>>),
      AESCBCProvider(<<WireKey(2, emptyStaticIdentityKey)>>),
      SecretboxProvider(<<WireKey(2, "c2VjcmV0")>>),
      AESGCMProvider(<<WireKey(1, emptyStaticIdentityKey)>>),
      AESGCMProvider(<<WireKey(2, emptyStaticIdentityKey)>>),
      AESGCMProvider(<<WireKey(1, "c2VjcmV0")>>),
      IdentityProvider,
      NoProvider,
      AESCBCProvider(<<WireKey(1, "c2VjcmV0"), WireKey(2, "c2VjcmV0")>>),
      [IdentityProvider EXCEPT !.Secretbox = <<[Keys |-> <<WireKey(1, "c2VjcmV0")>>]>>] }

SecretRecords ==
    { [valid |-> FALSE, ks |-> ZeroKeyState],
      [valid |-> TRUE, ks |-> [Key |-> WireKey(1, "c2VjcmV0"), Mode |-> AESCBC, Backed |-> FALSE]],
      [valid |-> TRUE, ks |-> [Key |-> WireKey(2, "c2VjcmV0"), Mode |-> Identity, Backed |-> FALSE]],
      [valid |-> TRUE, ks |-> [Key |-> WireKey(2, emptyStaticIdentityKey), Mode |-> Identity, Backed |-> FALSE]] }

KeySecretLists == SeqsUpTo(SecretRecords, MaxSecrets)

WireResourceNames ==
    { <<>>, <<<<"a">>>>, <<<<"b">>>>, <<<<"a", ".", "b">>>>, <<<<"a">>, <<"b">>>> }

WideProviderLists ==
    { <<>>,
      <<AESCBCProvider(<<WireKey(1, "c2VjcmV0")>>), IdentityProvider>>,
      <<IdentityProvider, AESGCMProvider(<<WireKey(2, emptyStaticIdentityKey)>>)>> }

\* one entry naming one resource, with any provider list
DeepConfigs ==
    { <<[Resources |-> <<[Resources |-> <<<<"a", ".", "b">>>>, Providers |-> ps]>>]>> :
        ps \in SeqsUpTo(WireProviders, MaxProviders) }

\* several entries, each naming zero, one or two resources
WideConfigs ==
    { <<[Resources |-> rcs]>> :
        rcs \in SeqsUpTo([Resources : WireResourceNames, Providers : WideProviderLists], MaxEntries) }

InitDecode ==
    /\ pc = "config"
    /\ encryptionState = <<>>
    /\ encryptionConfig \in {<<>>} \cup DeepConfigs \cup WideConfigs
    /\ keySecrets \in KeySecretLists
    /\ out = <<>>
    /\ backedKeys = <<>>

NextDecode == Decode

SpecDecode == InitDecode /\ [][NextDecode]_vars

----------------------------------------------------------------------------
(* Properties of the single-resource round trip (Spec) *)

desiredState == encryptionState[TheResource]
encodedProviders == encryptionConfig[1].Resources[1].Providers
decodedState == out[TheResource]

KeysOf(keyStates) == {keyStates[i].Key : i \in 1..Len(keyStates)}
NoDuplicateKeys(keyStates) ==
    \A i, j \in 1..Len(keyStates) : i # j => ~EqualKeyAndEqualID(keyStates[i], keyStates[j])
SingleIdentityReadKey(S) ==
    /\ ~HasWriteKey(S)
    /\ Len(S.ReadKeys) = 1
    /\ S.ReadKeys[1].Mode = Identity

\* C1: round trip with a write key: for a state with a write key that is among its
\* read keys, without duplicate keys and with valid modes only, decoding the encoded
\* state gives the same write key (name and secret) and the same set of read keys.
C1_RoundTripWithWriteKey ==
    ( /\ pc = "done"
      /\ HasWriteKey(desiredState)
      /\ desiredState.WriteKey.Key \in KeysOf(desiredState.ReadKeys)
      /\ NoDuplicateKeys(desiredState.ReadKeys)
      /\ desiredState.WriteKey.Mode \in ValidModes
      /\ \A i \in 1..Len(desiredState.ReadKeys) : desiredState.ReadKeys[i].Mode \in ValidModes )
    => /\ TheResource \in DOMAIN out
       /\ decodedState.WriteKey.Key = desiredState.WriteKey.Key
       /\ KeysOf(decodedState.ReadKeys) = KeysOf(desiredState.ReadKeys)

\* C2: every identity-mode read key, whatever its secret, is encoded as an AESGCM
\* provider with the one key {its name, the sentinel secret}.
C2_IdentityKeyEncodedWithSentinel ==
    pc = "config" =>
        \A i \in 1..Len(desiredState.ReadKeys) :
            desiredState.ReadKeys[i].Mode = Identity =>
                \E n \in 1..Len(encodedProviders) :
                    encodedProviders[n] =
                        AESGCMProvider(<<[Name |-> desiredState.ReadKeys[i].Key.Name,
                                          Secret |-> emptyStaticIdentityKey]>>)

\* C3 as stated: no write key and the one identity read key k1 (sentinel secret)
\* decode to a state without write key whose read keys are [k1].
C3_DecodedWriteKeyUnset ==
    ( /\ pc = "done"
      /\ SingleIdentityReadKey(desiredState)
      /\ desiredState.ReadKeys[1].Key.Secret = emptyStaticIdentityKey )
    => /\ TheResource \in DOMAIN out
       /\ ~HasWriteKey(decodedState)
       /\ decodedState.ReadKeys = desiredState.ReadKeys

\* C3 amended: no write key and the one identity read key k1 (sentinel secret)
\* decode to a state whose write key is k1 in identity mode and whose read keys are [k1].
C3_DecodedWriteKeyIsIdentityKey ==
    ( /\ pc = "done"
      /\ SingleIdentityReadKey(desiredState)
      /\ desiredState.ReadKeys[1].Key.Secret = emptyStaticIdentityKey )
    => /\ TheResource \in DOMAIN out
       /\ decodedState.WriteKey = desiredState.ReadKeys[1]
       /\ decodedState.WriteKey.Mode = Identity
       /\ decodedState.ReadKeys = desiredState.ReadKeys

C3_Witness ==
    /\ pc = "done"
    /\ SingleIdentityReadKey(desiredState)
    /\ desiredState.ReadKeys[1].Key.Secret = emptyStaticIdentityKey
    /\ HasWriteKey(decodedState)

\* C4: no write key and the one identity read key k1 are encoded as exactly
\* [no-op placeholder, AESGCM(k1)].
C4_PlaceholderThenSentinel ==
    (pc = "config" /\ SingleIdentityReadKey(desiredState))
    => encodedProviders = <<IdentityProvider, AESGCMProvider(<<desiredState.ReadKeys[1].Key>>)>>

\* C5: encoding never aborts, whatever the modes of the keys.
C5_EncodeNeverAborts == pc # "panic"

\* C9: with a write key, the translated key sequence starts with the write key and
\* holds no other key of the same name and secret.
C9_WriteKeyExactlyOnceFirst ==
    (pc # "state" /\ HasWriteKey(desiredState))
    => LET allKeys == allKeysOf(desiredState) IN
       /\ Len(allKeys) >= 1
       /\ allKeys[1] = desiredState.WriteKey
       /\ \A i \in 2..Len(allKeys) : ~EqualKeyAndEqualID(allKeys[i], desiredState.WriteKey)

----------------------------------------------------------------------------
(* Properties of the encoded resource map (SpecMap) *)

encodedResources == encryptionConfig[1].Resources

\* C6: whatever the order the map is iterated in, the configuration has one entry per
\* map entry, each naming that one resource and holding its providers, and the entries
\* are in ascending order of the resource identifier string.
C6_EntriesSortedOnePerResource ==
    pc = "config" =>
        /\ Len(encodedResources) = Cardinality(DOMAIN encryptionState)
        /\ \E order \in Perms(DOMAIN encryptionState) :
             \A n \in 1..Len(order) :
                /\ encodedResources[n].Resources = <<GroupResourceString(order[n])>>
                /\ encodedResources[n].Providers = stateToProviders(encryptionState[order[n]]).providers
        /\ \A n \in 1..(Len(encodedResources) - 1) :
             ~StringLess(encodedResources[n + 1].Resources[1], encodedResources[n].Resources[1])

C6_Witness ==
    /\ pc = "config"
    /\ Len(encodedResources) >= 2
    /\ encodedResources[1].Resources = <<<<"a", ".", "b">>>>
    /\ encodedResources[2].Resources = <<<<"a", "b">>>>
    /\ encodedResources[1].Providers # encodedResources[2].Providers

----------------------------------------------------------------------------
(* Properties of the decoder (SpecDecode) *)

wireResources == encryptionConfig[1].Resources
namesOneResource(n) == Len(wireResources[n].Resources) = 1
resourceOf(n) == ParseGroupResource(wireResources[n].Resources[1])
lastEntryOfItsResource(n) ==
    /\ namesOneResource(n)
    /\ \A m \in (n + 1)..Len(wireResources) : namesOneResource(m) => resourceOf(m) # resourceOf(n)

\* C7: an entry naming zero or several resources adds nothing to the result and does
\* not stop the decoding: the result holds exactly the resources of the entries naming
\* one resource, each with the state decoded from (the last of) its entries.
C7_InvalidEntriesSkipped ==
    (pc = "done" /\ encryptionConfig # <<>>) =>
        /\ DOMAIN out = {resourceOf(n) : n \in {m \in 1..Len(wireResources) : namesOneResource(m)}}
        /\ \A n \in 1..Len(wireResources) :
             lastEntryOfItsResource(n) =>
                out[resourceOf(n)] = resourceConfigToState(wireResources[n], backedKeys)

C7_Witness ==
    /\ pc = "done"
    /\ encryptionConfig # <<>>
    /\ Len(wireResources) = 2
    /\ Len(wireResources[1].Resources) = 2
    /\ namesOneResource(2)
    /\ DOMAIN out = {resourceOf(2)}
    /\ HasWriteKey(out[resourceOf(2)])

\* the key decoded from provider i of entry n (after the enrichment from the backed keys)
decodedKey(n, i) == enrich(providerToKeyState(wireResources[n].Providers[i]).ks, backedKeys)
decodesKey(n, i) == ~providerToKeyState(wireResources[n].Providers[i]).skip
laterIdentityKeys(n) ==
    {i \in 2..Len(wireResources[n].Providers) : decodesKey(n, i) /\ decodedKey(n, i).Mode = Identity}
firstLaterIdentityKey(n) ==
    decodedKey(n, CHOOSE i \in laterIdentityKeys(n) : \A j \in laterIdentityKeys(n) : i <= j)
positionZeroIsPlaceholder(n) ==
    /\ Len(wireResources[n].Providers) >= 1
    /\ providerToKeyState(wireResources[n].Providers[1]).placeholder
positionZeroGivesKey(n) ==
    /\ Len(wireResources[n].Providers) >= 1
    /\ decodesKey(n, 1)

\* C8 as stated: the write key is the key decoded at position 0; a later identity key
\* becomes the write key only when position 0 was the skipped placeholder (then the
\* first one does); in every other case no later key becomes the write key.
C8_LaterIdentityOnlyAfterPlaceholder ==
    (pc = "done" /\ encryptionConfig # <<>>) =>
        \A n \in 1..Len(wireResources) :
            lastEntryOfItsResource(n) =>
                out[resourceOf(n)].WriteKey =
                    IF positionZeroGivesKey(n) THEN decodedKey(n, 1)
                    ELSE IF positionZeroIsPlaceholder(n) /\ laterIdentityKeys(n) # {}
                         THEN firstLaterIdentityKey(n)
                    ELSE ZeroKeyState

\* C8 amended: the write key is the key decoded at position 0; when position 0 gave no
\* key (it was skipped, as the placeholder or as an invalid provider, or there is none),
\* the write key is the first later key of identity mode, if any; once set, the write
\* key is never replaced.
C8_LaterIdentityWhenNoWriteKeyYet ==
    (pc = "done" /\ encryptionConfig # <<>>) =>
        \A n \in 1..Len(wireResources) :
            lastEntryOfItsResource(n) =>
                out[resourceOf(n)].WriteKey =
                    IF positionZeroGivesKey(n) THEN decodedKey(n, 1)
                    ELSE IF laterIdentityKeys(n) # {} THEN firstLaterIdentityKey(n)
                    ELSE ZeroKeyState

C8_Witness ==
    /\ pc = "done"
    /\ encryptionConfig # <<>>
    /\ Len(wireResources) = 1
    /\ namesOneResource(1)
    /\ Len(wireResources[1].Providers) = 3
    /\ ~positionZeroGivesKey(1)
    /\ ~positionZeroIsPlaceholder(1)
    /\ Cardinality(laterIdentityKeys(1)) = 2
    /\ decodedKey(1, 2) # decodedKey(1, 3)
    /\ out[resourceOf(1)].WriteKey = decodedKey(1, 2)

\* C10: in every decoded state with a write key, a key of the same name and secret as
\* the write key is among the read keys.
C10_WriteKeyAmongReadKeys ==
    pc = "done" =>
        \A gr \in DOMAIN out :
            HasWriteKey(out[gr]) =>
                \E i \in 1..Len(out[gr].ReadKeys) :
                    EqualKeyAndEqualID(out[gr].ReadKeys[i], out[gr].WriteKey)

C10_Witness ==
    /\ pc = "done"
    /\ keySecrets # <<>>
    /\ \E gr \in DOMAIN out :
         /\ HasWriteKey(out[gr])
         /\ out[gr].WriteKey.Backed
         /\ Len(out[gr].ReadKeys) = 3
         /\ out[gr].ReadKeys[1] # out[gr].WriteKey

====
